---- MODULE Spec2Model ----
(***************************************************************************)
(* A model of 11th-echo-rust: the session state machine (src/state.rs),    *)
(* the streaming transcription client (src/network.rs), the orchestrator   *)
(* with its network and injection-consumer tasks (src/main.rs) and the     *)
(* pre-connect ring buffer (src/audio.rs).                                 *)
(***************************************************************************)
EXTENDS Integers, Sequences, FiniteSets, TLC

\* ------------------------------------------------------------------ bounds
\* Sessions the orchestrator may create in one behaviour.
MaxSessions == 1
\* Commands the UI thread may send in one behaviour.
MaxCmds == 2
\* Inbound websocket messages (other than the terminating one) per session.
MaxInbound == 1
\* Audio chunks the capture callback delivers per session.
MaxChunks == 1

\* Capacity of the ring buffer in samples (PRECONNECT_BUFFER_SAMPLES, scaled).
Capacity == 3
\* Ring buffer operations in one behaviour.
MaxRingOps == 3

\* CHUNK_SIZE and the capacity of the audio channel, scaled, and the number of
\* capture callbacks, when the capture callback is exercised on its own.
ChunkSize == 2
ChanCap == 1
MaxCallbacks == 3

\* Largest pending_injections a RecordingState starts with, and the number of
\* operations applied to it, when the state machine is exercised on its own.
MaxPending == 2
MaxStateOps == 2

\* Commands or finalize signals the orchestrator takes, and transcripts the
\* injection consumer receives, when the tasks are followed lock by lock.
MaxLockEvents == 2
MaxTexts == 2

\* Hardware deliveries when process_audio_f32 is exercised on its own.
MaxDeliveries == 2

\* ------------------------------------------------------- program constants
\* mpsc::channel::<Vec<i16>>(50)
AUDIO_CHANNEL_CAP == 50
\* mpsc::channel::<String>(100)
TEXT_CHANNEL_CAP == 100

Sessions == 1..(MaxSessions + 1)

\* ------------------------------------------------ RecordingState (state.rs)
\* The enum as a record: k is the variant, n the payload of Finalizing.
Idle == [k |-> "Idle", n |-> 0]
BufferingPreConnect == [k |-> "BufferingPreConnect", n |-> 0]
Connecting == [k |-> "Connecting", n |-> 0]
Recording == [k |-> "Recording", n |-> 0]
Finalizing(p) == [k |-> "Finalizing", n |-> p]
Error == [k |-> "Error", n |-> 0]

can_start_finalizing_too(s) == s.k \in {"Idle", "Error", "Finalizing"}

can_start(s) == s.k \in {"Idle", "Error"}

can_stop_finalizing_too(s) ==
    s.k \in {"BufferingPreConnect", "Connecting", "Recording", "Finalizing"}

can_stop(s) == s.k \in {"BufferingPreConnect", "Connecting", "Recording"}

is_finalizing(s) == s.k = "Finalizing"

transition_to_connecting(s) ==
    IF s.k = "BufferingPreConnect" THEN Connecting ELSE s

transition_to_recording_from_finalizing_too(s) ==
    IF s.k \in {"BufferingPreConnect", "Connecting", "Finalizing"} THEN Recording ELSE s

transition_to_recording(s) ==
    IF s.k \in {"BufferingPreConnect", "Connecting"} THEN Recording ELSE s

transition_to_finalizing_reset(s) == Finalizing(0)

transition_to_finalizing(s) ==
    IF s.k # "Finalizing" THEN Finalizing(0) ELSE s

begin_injection(s) ==
    IF s.k = "Finalizing" THEN Finalizing(s.n + 1) ELSE s

finish_injection_wrapping(s) ==
    IF s.k = "Finalizing" THEN Finalizing(s.n - 1) ELSE s

\* saturating_sub(1)
finish_injection(s) ==
    IF s.k = "Finalizing" THEN Finalizing(IF s.n = 0 THEN 0 ELSE s.n - 1) ELSE s

transition_to_idle(s) == Idle

\* ---------------------------------------------------------------- messages
\* An inbound websocket item as the read task sees it.  ws is the tungstenite
\* variant ("Err" is a read error); type is the JSON "type" field ("NONE":
\* not JSON, or no string "type"); text is the JSON "text" field ("NONE":
\* absent or not a string).
TextMsg(ty, tx) == [ws |-> "Text", type |-> ty, text |-> tx]
OtherMsg(w) == [ws |-> w, type |-> "NONE", text |-> "NONE"]

\* What the remote may deliver in the orchestrator specification.
OrchMsgs == {TextMsg("final_transcript", "a")}

\* What the remote may deliver to one session: final transcripts with the
\* text present ("a", "b"), empty or absent, a partial transcript, an event of
\* another type, a Close frame and a stream error.
NetMsgs ==
    {TextMsg("final_transcript", x) : x \in {"a", "b", "", "NONE"}}
    \cup {TextMsg("partial_transcript", "a"), TextMsg("session_started", "a")}
    \cup {OtherMsg("Close"), OtherMsg("Err")}

EndStream == [type |-> "end_stream", data |-> 0]
AudioFrame(c) == [type |-> "audio", data |-> c]

\* ---------------------------------------- CircularSampleBuffer (audio.rs)
Min(a, b) == IF a < b THEN a ELSE b

\* a.saturating_sub(b) on usize
saturating_sub(a, b) == IF a > b THEN a - b ELSE 0

\* self.samples.drain(0..k): what is left of the deque
Drain(buf, k) == SubSeq(buf, k + 1, Len(buf))

\* Variant: the overflow is not drained before the new samples are appended.
push_samples_no_evict(cap, buf, incoming) ==
    IF incoming = <<>> THEN buf
    ELSE IF Len(incoming) >= cap
         THEN SubSeq(incoming, Len(incoming) - cap + 1, Len(incoming))
         ELSE buf \o incoming

\* cap is self.capacity.
push_samples(cap, buf, incoming) ==
    IF incoming = <<>> THEN buf
    ELSE IF Len(incoming) >= cap
         THEN SubSeq(incoming, Len(incoming) - cap + 1, Len(incoming))
         ELSE LET overflow == saturating_sub(Len(buf) + Len(incoming), cap)
              IN  Drain(buf, overflow) \o incoming

\* pop_chunk's result: some is FALSE for None; rest is the deque afterwards.
pop_chunk(buf, max_len) ==
    IF buf = <<>> THEN [some |-> FALSE, chunk |-> <<>>, rest |-> buf]
    ELSE LET len == Min(Len(buf), max_len)
         IN  [some |-> TRUE, chunk |-> SubSeq(buf, 1, len), rest |-> Drain(buf, len)]

\* Variant: the chunk is walked front to back, which reverses it.
RECURSIVE push_front_samples_forward(_, _)
push_front_samples_forward(buf, chunk) ==
    IF chunk = <<>> THEN buf
    ELSE push_front_samples_forward(<<Head(chunk)>> \o buf, Tail(chunk))

\* for sample in chunk.iter().rev() { self.samples.push_front(*sample) }
RECURSIVE push_front_samples(_, _)
push_front_samples(buf, chunk) ==
    IF chunk = <<>> THEN buf
    ELSE push_front_samples(<<chunk[Len(chunk)]>> \o buf, SubSeq(chunk, 1, Len(chunk) - 1))

clear(buf) == <<>>

\* --------------------------------------------------------------- variables
VARIABLES
    cmdQ,        \* cmd_rx: commands sent by the UI, not yet handled
    cmdsLeft,    \* commands the UI may still send
    active,      \* active_session: 0 is None, else the session's number
    nextSid,     \* number the next created session gets
    sessLeft,    \* sessions the orchestrator may still create
    rejects,     \* times "Cannot start recording: session already active" was printed
    finalizeQ,   \* finalize_rx: pending signals, each tagged with its sender
    st,          \* the session's Arc<Mutex<RecordingState>>
    hasStream,   \* Session.audio_stream is Some (capture callback and audio_tx alive)
    hasStopTx,   \* Session.network_stop_tx is Some (control sender alive)
    net,         \* position of the session's network task
    sentEnd,     \* run's sent_end_stream
    rd,          \* position of run's read_task
    cons,        \* position of the session's injection consumer task
    curText,     \* the transcript the consumer is handling
    audioQ,      \* contents of the audio channel
    audioRx,     \* audio_rx is alive (run has not returned)
    produced,    \* chunks the capture callback has delivered
    ctrlQ,       \* Stop messages in the control channel
    stopsSent,   \* Stop messages ever sent on the session's control channel
    textQ,       \* contents of the transcript channel
    textTx,      \* text_tx is alive
    wire,        \* frames written to the websocket, in order
    wrFailed,    \* a write.send on the websocket has failed
    rxLog,       \* inbound items the read task has taken, in order
    inLeft,      \* inbound items the remote may still deliver before it closes
    fwd,         \* strings sent on text_tx, in order
    injected,    \* calls of inject_text so far: text and outcome, in order
    raised,      \* finalize signals the session's tasks have sent
    samples,     \* CircularSampleBuffer.samples
    ringLeft,    \* ring buffer operations the behaviour may still perform
    pushedAll,   \* every sample given to push_samples so far, in order
    onlyPush,    \* no operation other than push_samples has been called
    lastOp,      \* the last ring buffer call: name, arguments, deque before, result
    prevOp,      \* the call before lastOp
    smOp,        \* the last RecordingState operation applied on its own
    smPre,       \* the RecordingState before smOp
    smRet,       \* what smOp returned, for can_start and can_stop
    smLeft,      \* RecordingState operations the behaviour may still apply
    chanQ,       \* the capture callback's channel: chunks sent, not yet received
    chanOpen,    \* the receiver of that channel is alive
    delivered,   \* the samples of every chunk try_send accepted, in order
    evicted,     \* push_samples has dropped samples
    cbLeft,      \* capture callbacks the behaviour may still run
    cbPc,        \* "flush" while a callback is in enqueue_and_flush's loop
    lockOwner,   \* the task that holds the RecordingState mutex, or "none"
    lkState,     \* the RecordingState behind that mutex
    lkPc,        \* where each task is, one lock call at a time
    lkLeft,      \* commands and transcripts the behaviour may still deliver
    accBuf,      \* the accumulation buffer of process_audio_f32
    accOut,      \* the blocks given to enqueue_and_flush, in order
    accFailed,   \* the blocks whose conversion failed, in order
    accIn,       \* samples the hardware has delivered so far
    hasResampler,\* a converter is configured
    accLeft      \* hardware deliveries the behaviour may still make

orchVars == <<cmdQ, cmdsLeft, active, nextSid, sessLeft, rejects, finalizeQ>>
sessVars == <<st, hasStream, hasStopTx>>
netVars == <<net, sentEnd, rd, audioQ, audioRx, produced, ctrlQ, stopsSent, wire,
             wrFailed, rxLog, inLeft>>
consVars == <<cons, curText, textQ, textTx, fwd, injected, raised>>
progVars == <<orchVars, sessVars, netVars, consVars>>
ringVars == <<samples, ringLeft, pushedAll, onlyPush, lastOp, prevOp>>
smVars == <<smOp, smPre, smRet, smLeft>>
capVars == <<chanQ, chanOpen, delivered, evicted, cbLeft, cbPc>>
lockVars == <<lockOwner, lkState, lkPc, lkLeft>>
accVars == <<accBuf, accOut, accFailed, accIn, hasResampler, accLeft>>
unitVars == <<ringVars, smVars, capVars, lockVars, accVars>>
vars == <<progVars, unitVars>>

NoOp == [name |-> "none", chunk |-> <<>>, max |-> 0, pre |-> <<>>, some |-> FALSE, ret |-> <<>>]

\* CircularSampleBuffer::new(capacity): an empty deque.
RingInit(nOps) ==
    /\ samples = <<>>
    /\ ringLeft = nOps
    /\ pushedAll = <<>>
    /\ onlyPush = TRUE
    /\ lastOp = NoOp
    /\ prevOp = NoOp

\* No RecordingState operation has been applied on its own.
SmInit(nOps) ==
    /\ smOp = "none"
    /\ smPre = Idle
    /\ smRet = FALSE
    /\ smLeft = nOps

\* The tasks that lock a session's RecordingState.
LkTasks == {"orch", "net", "cons"}

\* The mutex of a session just created (main.rs:123), free, with the
\* orchestrator back in its select and both tasks spawned.
LockInit(on) ==
    /\ lockOwner = "none"
    /\ lkState = BufferingPreConnect
    /\ lkPc = IF on
              THEN [t \in LkTasks |->
                      IF t = "orch" THEN "select"
                      ELSE IF t = "net" THEN "lock_connecting" ELSE "recv"]
              ELSE [t \in LkTasks |-> "off"]
    /\ lkLeft = IF on THEN [cmds |-> MaxLockEvents, texts |-> MaxTexts]
                ELSE [cmds |-> 0, texts |-> 0]

\* The capture closure's accumulation buffer as start_audio_capture builds it.
AccInit(nCalls) ==
    /\ accBuf = <<>>
    /\ accOut = <<>>
    /\ accFailed = <<>>
    /\ accIn = 0
    /\ accLeft = nCalls
    /\ hasResampler \in (IF nCalls = 0 THEN {FALSE} ELSE BOOLEAN)

\* A capture stream as start_audio_capture builds it: nothing sent yet.
CapInit(nCalls) ==
    /\ chanQ = <<>>
    /\ chanOpen = TRUE
    /\ delivered = <<>>
    /\ evicted = FALSE
    /\ cbLeft = nCalls
    /\ cbPc = "idle"

\* No task, channel or stream of any session exists.
TasksInit ==
    /\ hasStream = [s \in Sessions |-> FALSE]
    /\ hasStopTx = [s \in Sessions |-> FALSE]
    /\ net = [s \in Sessions |-> "none"]
    /\ sentEnd = [s \in Sessions |-> FALSE]
    /\ rd = [s \in Sessions |-> "none"]
    /\ cons = [s \in Sessions |-> "none"]
    /\ curText = [s \in Sessions |-> ""]
    /\ audioQ = [s \in Sessions |-> <<>>]
    /\ audioRx = [s \in Sessions |-> FALSE]
    /\ produced = [s \in Sessions |-> 0]
    /\ ctrlQ = [s \in Sessions |-> 0]
    /\ stopsSent = [s \in Sessions |-> 0]
    /\ textQ = [s \in Sessions |-> <<>>]
    /\ textTx = [s \in Sessions |-> FALSE]
    /\ wire = [s \in Sessions |-> <<>>]
    /\ wrFailed = [s \in Sessions |-> FALSE]
    /\ rxLog = [s \in Sessions |-> <<>>]
    /\ inLeft = [s \in Sessions |-> 0]
    /\ fwd = [s \in Sessions |-> <<>>]
    /\ injected = [s \in Sessions |-> <<>>]
    /\ raised = [s \in Sessions |-> 0]

\* No session has been created: every per-session field is at its default.
SessionsInit ==
    /\ st = [s \in Sessions |-> Idle]
    /\ TasksInit

\* The state when the orchestrator loop is entered: no session, empty queues.
\* nCmds and nSess are the budgets of the behaviour.
InitWith(nCmds, nSess) ==
    /\ RingInit(0)
    /\ SmInit(0)
    /\ CapInit(0)
    /\ LockInit(FALSE)
    /\ AccInit(0)
    /\ cmdQ = <<>>
    /\ cmdsLeft = nCmds
    /\ active = 0
    /\ nextSid = 1
    /\ sessLeft = nSess
    /\ rejects = 0
    /\ finalizeQ = <<>>
    /\ SessionsInit

Init == InitWith(MaxCmds, MaxSessions)

\* One more session and one more command than Init allows.
InitTwo == InitWith(MaxCmds + 1, MaxSessions + 1)

\* -------------------------------------------------------- UI thread (main.rs)
\* ui.on_start_recording / the hotkey: queue a StartRecording command.
UiStart ==
    /\ cmdsLeft > 0
    /\ cmdQ' = Append(cmdQ, "Start")
    /\ cmdsLeft' = cmdsLeft - 1
    /\ UNCHANGED <<active, nextSid, rejects, sessLeft, finalizeQ, sessVars, netVars,
                   consVars>>
    /\ UNCHANGED unitVars

\* ui.on_stop_recording / the hotkey: queue a StopRecording command.
UiStop ==
    /\ cmdsLeft > 0
    /\ cmdQ' = Append(cmdQ, "Stop")
    /\ cmdsLeft' = cmdsLeft - 1
    /\ UNCHANGED <<active, nextSid, rejects, sessLeft, finalizeQ, sessVars, netVars,
                   consVars>>
    /\ UNCHANGED unitVars

\* ------------------------------------------------- orchestrator loop (main.rs)
\* Dropping a Session value drops its capture stream and its control sender.
DropStream(f, s) == IF s = 0 THEN f ELSE [f EXCEPT ![s] = FALSE]

\* Some(()) = finalize_rx.recv(): take the active session, if any, and set
\* its state to Idle; the taken Session is dropped.
HandleFinalize ==
    /\ finalizeQ # <<>>
    /\ finalizeQ' = Tail(finalizeQ)
    /\ IF active # 0
       THEN /\ st' = [st EXCEPT ![active] = transition_to_idle(st[active])]
            /\ hasStream' = DropStream(hasStream, active)
            /\ hasStopTx' = DropStream(hasStopTx, active)
            /\ active' = 0
       ELSE UNCHANGED <<st, hasStream, hasStopTx, active>>
    /\ UNCHANGED <<cmdQ, cmdsLeft, nextSid, rejects, sessLeft, netVars, consVars>>
    /\ UNCHANGED unitVars

\* AppCommand::StartRecording.  audioOk is the outcome of start_audio_capture.
HandleStart(audioOk) ==
    /\ cmdQ # <<>>
    /\ Head(cmdQ) = "Start"
    /\ cmdQ' = Tail(cmdQ)
    /\ IF active # 0 /\ ~can_start(st[active])
       THEN \* "Cannot start recording: session already active"; continue
            /\ audioOk = FALSE
            /\ rejects' = rejects + 1
            /\ UNCHANGED <<active, nextSid, sessLeft, sessVars, net, cons, audioRx,
                           textTx, inLeft>>
       ELSE IF audioOk
            THEN /\ sessLeft > 0
                 /\ sessLeft' = sessLeft - 1
                 /\ inLeft' = [inLeft EXCEPT ![nextSid] = MaxInbound]
                 /\ st' = [st EXCEPT ![nextSid] = BufferingPreConnect]
                 /\ hasStream' = [DropStream(hasStream, active) EXCEPT ![nextSid] = TRUE]
                 /\ hasStopTx' = [DropStream(hasStopTx, active) EXCEPT ![nextSid] = TRUE]
                 /\ net' = [net EXCEPT ![nextSid] = "start"]
                 /\ cons' = [cons EXCEPT ![nextSid] = "recv"]
                 /\ audioRx' = [audioRx EXCEPT ![nextSid] = TRUE]
                 /\ textTx' = [textTx EXCEPT ![nextSid] = TRUE]
                 /\ active' = nextSid
                 /\ nextSid' = nextSid + 1
                 /\ rejects' = rejects
            ELSE \* "Failed to start audio": the new channels are dropped
                 UNCHANGED <<active, nextSid, rejects, sessLeft, sessVars, net, cons, audioRx,
                             textTx, inLeft>>
    /\ UNCHANGED <<cmdsLeft, finalizeQ, sentEnd, rd, audioQ, produced, ctrlQ, stopsSent,
                   wire, wrFailed, rxLog, curText, textQ, fwd, injected, raised>>
    /\ UNCHANGED unitVars

\* Variant of stop_network that keeps the control sender.
stop_network_keeps_sender(s) ==
    /\ hasStopTx' = hasStopTx
    /\ ctrlQ' = IF hasStopTx[s] /\ audioRx[s]
                THEN [ctrlQ EXCEPT ![s] = @ + 1]
                ELSE ctrlQ
    /\ stopsSent' = IF hasStopTx[s] /\ audioRx[s]
                    THEN [stopsSent EXCEPT ![s] = @ + 1]
                    ELSE stopsSent

\* Session::stop_network: take the control sender and send Stop on it (the
\* send fails silently once run has dropped control_rx).
stop_network(s) ==
    /\ hasStopTx' = [hasStopTx EXCEPT ![s] = FALSE]
    /\ ctrlQ' = IF hasStopTx[s] /\ audioRx[s]
                THEN [ctrlQ EXCEPT ![s] = @ + 1]
                ELSE ctrlQ
    /\ stopsSent' = IF hasStopTx[s] /\ audioRx[s]
                    THEN [stopsSent EXCEPT ![s] = @ + 1]
                    ELSE stopsSent

\* Session::stop_capture: drop the capture stream.
stop_capture(s) == hasStream' = [hasStream EXCEPT ![s] = FALSE]

\* StopRecording's locked block: if s.can_stop() { s.transition_to_finalizing() }
\* (the other branches only print).
stop_lock_block(s) == IF can_stop(s) THEN transition_to_finalizing(s) ELSE s

\* AppCommand::StopRecording.
HandleStop ==
    /\ cmdQ # <<>>
    /\ Head(cmdQ) = "Stop"
    /\ cmdQ' = Tail(cmdQ)
    /\ IF active # 0
       THEN /\ st' = [st EXCEPT ![active] = stop_lock_block(@)]
            /\ stop_network(active)
            /\ stop_capture(active)
       ELSE UNCHANGED <<st, hasStopTx, ctrlQ, stopsSent, hasStream>>
    /\ UNCHANGED <<cmdsLeft, active, nextSid, rejects, sessLeft, finalizeQ, net,
                   sentEnd, rd, audioQ, audioRx, produced, wire, wrFailed, rxLog,
                   inLeft, consVars>>
    /\ UNCHANGED unitVars

\* --------------------------------------------------- network task (main.rs)
\* The spawned task's first block: lock, transition_to_connecting, unlock.
NetConnecting(s) ==
    /\ net[s] = "start"
    /\ st' = [st EXCEPT ![s] = transition_to_connecting(@)]
    /\ net' = [net EXCEPT ![s] = "connect"]
    /\ UNCHANGED <<orchVars, hasStream, hasStopTx, sentEnd, rd, audioQ, audioRx,
                   produced, ctrlQ, stopsSent, wire, wrFailed, rxLog, inLeft, consVars>>
    /\ UNCHANGED unitVars

\* run: connect_async fails (or the request cannot be built) and `?` returns
\* the error; run's arguments audio_rx, control_rx and text_tx are dropped.
RunConnectErr(s) ==
    /\ net[s] = "connect"
    /\ net' = [net EXCEPT ![s] = "ret_err"]
    /\ audioRx' = [audioRx EXCEPT ![s] = FALSE]
    /\ textTx' = [textTx EXCEPT ![s] = FALSE]
    /\ UNCHANGED <<orchVars, sessVars, sentEnd, rd, audioQ, produced, ctrlQ, stopsSent,
                   wire, wrFailed, rxLog, inLeft, cons, curText, textQ, fwd, injected,
                   raised>>
    /\ UNCHANGED unitVars

\* run: connect_async succeeds; the stream is split, read_task is spawned
\* (text_tx moves into it) and the send loop starts with sent_end_stream false.
RunConnectOk(s) ==
    /\ net[s] = "connect"
    /\ net' = [net EXCEPT ![s] = "loop"]
    /\ rd' = [rd EXCEPT ![s] = "running"]
    /\ sentEnd' = [sentEnd EXCEPT ![s] = FALSE]
    /\ UNCHANGED <<orchVars, sessVars, audioQ, audioRx, produced, ctrlQ, stopsSent,
                   wire, wrFailed, rxLog, inLeft, consVars>>
    /\ UNCHANGED unitVars

\* Variant of the error path that leaves a Finalizing state alone.
NetSetErrorUnlessFinalizing(s) ==
    /\ net[s] = "ret_err"
    /\ st' = [st EXCEPT ![s] = IF @.k = "Finalizing" THEN @ ELSE Error]
    /\ net' = [net EXCEPT ![s] = "err_set"]
    /\ UNCHANGED <<orchVars, hasStream, hasStopTx, sentEnd, rd, audioQ, audioRx,
                   produced, ctrlQ, stopsSent, wire, wrFailed, rxLog, inLeft, consVars>>
    /\ UNCHANGED unitVars

\* Network task, Err(err) = result: lock and store Error("Network client failed").
NetSetError(s) ==
    /\ net[s] = "ret_err"
    /\ st' = [st EXCEPT ![s] = Error]
    /\ net' = [net EXCEPT ![s] = "err_set"]
    /\ UNCHANGED <<orchVars, hasStream, hasStopTx, sentEnd, rd, audioQ, audioRx,
                   produced, ctrlQ, stopsSent, wire, wrFailed, rxLog, inLeft, consVars>>
    /\ UNCHANGED unitVars

\* Network task, error path: finalize_tx_for_network.send(()); return.
NetSendFinalize(s) ==
    /\ net[s] = "err_set"
    /\ finalizeQ' = Append(finalizeQ, s)
    /\ raised' = [raised EXCEPT ![s] = @ + 1]
    /\ net' = [net EXCEPT ![s] = "done"]
    /\ UNCHANGED <<cmdQ, cmdsLeft, active, nextSid, rejects, sessLeft, sessVars,
                   sentEnd, rd, audioQ, audioRx, produced, ctrlQ, stopsSent, wire,
                   wrFailed, rxLog, inLeft, cons, curText, textQ, textTx, fwd,
                   injected>>
    /\ UNCHANGED unitVars

\* ------------------------------------------------ run's send loop (network.rs)
\* Variant of the Stop arm that writes end_stream but neither sets
\* sent_end_stream nor leaves the loop.
SendLoopStopNoBreak(s, wrOk) ==
    /\ net[s] = "loop"
    /\ ctrlQ[s] > 0
    /\ ctrlQ' = [ctrlQ EXCEPT ![s] = @ - 1]
    /\ stopsSent' = stopsSent
    /\ wire' = [wire EXCEPT ![s] = IF wrOk THEN Append(@, EndStream) ELSE @]
    /\ wrFailed' = [wrFailed EXCEPT ![s] = @ \/ ~wrOk]
    /\ net' = [net EXCEPT ![s] = IF wrOk THEN @ ELSE "await_read"]
    /\ UNCHANGED <<orchVars, sessVars, sentEnd, rd, audioQ, audioRx, produced, rxLog,
                   inLeft, consVars>>
    /\ UNCHANGED unitVars

\* Variant of the Stop arm that writes end_stream, records it and goes on
\* selecting.
SendLoopStopKeepsLooping(s, wrOk) ==
    /\ net[s] = "loop"
    /\ ctrlQ[s] > 0
    /\ ctrlQ' = [ctrlQ EXCEPT ![s] = @ - 1]
    /\ stopsSent' = stopsSent
    /\ wire' = [wire EXCEPT ![s] = IF wrOk /\ ~sentEnd[s]
                                   THEN Append(@, EndStream) ELSE @]
    /\ sentEnd' = [sentEnd EXCEPT ![s] = @ \/ wrOk]
    /\ wrFailed' = [wrFailed EXCEPT ![s] = @ \/ ~wrOk]
    /\ net' = [net EXCEPT ![s] = IF wrOk THEN @ ELSE "await_read"]
    /\ UNCHANGED <<orchVars, sessVars, rd, audioQ, audioRx, produced, rxLog, inLeft,
                   consVars>>
    /\ UNCHANGED unitVars

\* select! arm Some(cmd) = control_rx.recv().  wrOk is the outcome of write.send.
SendLoopStop(s, wrOk) ==
    /\ net[s] = "loop"
    /\ ctrlQ[s] > 0
    /\ ctrlQ' = [ctrlQ EXCEPT ![s] = @ - 1]
    /\ stopsSent' = stopsSent
    /\ IF ~sentEnd[s]
       THEN IF wrOk
            THEN /\ wire' = [wire EXCEPT ![s] = Append(@, EndStream)]
                 /\ sentEnd' = [sentEnd EXCEPT ![s] = TRUE]
                 /\ net' = [net EXCEPT ![s] = "await_read"]
                 /\ wrFailed' = wrFailed
            ELSE \* "Failed to send end_stream"; break
                 /\ net' = [net EXCEPT ![s] = "await_read"]
                 /\ wrFailed' = [wrFailed EXCEPT ![s] = TRUE]
                 /\ UNCHANGED <<wire, sentEnd>>
       ELSE /\ wrOk
            /\ UNCHANGED <<wire, wrFailed, sentEnd, net>>
    /\ UNCHANGED <<orchVars, sessVars, rd, audioQ, audioRx, produced, rxLog, inLeft,
                   consVars>>
    /\ UNCHANGED unitVars

\* Variant of the audio arm in which a failed write makes run return Err.
SendLoopChunkErrReturns(s, wrOk) ==
    /\ net[s] = "loop"
    /\ audioQ[s] # <<>>
    /\ audioQ' = [audioQ EXCEPT ![s] = Tail(@)]
    /\ IF wrOk
       THEN /\ wire' = [wire EXCEPT ![s] = Append(@, AudioFrame(Head(audioQ[s])))]
            /\ UNCHANGED <<net, wrFailed>>
       ELSE /\ net' = [net EXCEPT ![s] = "ret_err"]
            /\ wrFailed' = [wrFailed EXCEPT ![s] = TRUE]
            /\ wire' = wire
    /\ UNCHANGED <<orchVars, sessVars, sentEnd, rd, audioRx, produced, ctrlQ, stopsSent,
                   rxLog, inLeft, consVars>>
    /\ UNCHANGED unitVars

\* select! arm maybe_chunk = audio_rx.recv(), Some(chunk).
SendLoopChunk(s, wrOk) ==
    /\ net[s] = "loop"
    /\ audioQ[s] # <<>>
    /\ audioQ' = [audioQ EXCEPT ![s] = Tail(@)]
    /\ IF wrOk
       THEN /\ wire' = [wire EXCEPT ![s] = Append(@, AudioFrame(Head(audioQ[s])))]
            /\ UNCHANGED <<net, wrFailed>>
       ELSE \* "Failed to send audio"; break
            /\ net' = [net EXCEPT ![s] = "await_read"]
            /\ wrFailed' = [wrFailed EXCEPT ![s] = TRUE]
            /\ wire' = wire
    /\ UNCHANGED <<orchVars, sessVars, sentEnd, rd, audioRx, produced, ctrlQ, stopsSent,
                   rxLog, inLeft, consVars>>
    /\ UNCHANGED unitVars

\* select! arm maybe_chunk = audio_rx.recv(), None: the channel is empty and
\* its sender (owned by the capture stream) is gone.
SendLoopAudioClosed(s, wrOk) ==
    /\ net[s] = "loop"
    /\ audioQ[s] = <<>>
    /\ ~hasStream[s]
    /\ IF ~sentEnd[s]
       THEN /\ wire' = [wire EXCEPT ![s] = IF wrOk THEN Append(@, EndStream) ELSE @]
            /\ wrFailed' = [wrFailed EXCEPT ![s] = @ \/ ~wrOk]
            /\ sentEnd' = [sentEnd EXCEPT ![s] = TRUE]
       ELSE /\ wrOk
            /\ UNCHANGED <<wire, wrFailed, sentEnd>>
    /\ net' = [net EXCEPT ![s] = "await_read"]
    /\ UNCHANGED <<orchVars, sessVars, rd, audioQ, audioRx, produced, ctrlQ, stopsSent,
                   rxLog, inLeft, consVars>>
    /\ UNCHANGED unitVars

\* Variant of the cleanup that does not wait for the read task.
ReadTaskNotAwaited(s) == rd[s] \in {"running", "done"}

\* What the cleanup `let _ = read_task.await` waits for.
ReadTaskJoined(s) == rd[s] = "done"

\* run: read_task.await completes and run returns Ok(()); audio_rx and
\* control_rx are dropped.
RunReturnOk(s) ==
    /\ net[s] = "await_read"
    /\ ReadTaskJoined(s)
    /\ net' = [net EXCEPT ![s] = "ret_ok"]
    /\ audioRx' = [audioRx EXCEPT ![s] = FALSE]
    /\ UNCHANGED <<orchVars, sessVars, sentEnd, rd, audioQ, produced, ctrlQ, stopsSent,
                   wire, wrFailed, rxLog, inLeft, consVars>>
    /\ UNCHANGED unitVars

\* Network task after run returned Ok: the locked block
\* if matches!(*s, BufferingPreConnect | Connecting | Recording)
\*     { s.transition_to_finalizing() }.
network_end_block(s) ==
    IF s.k \in {"BufferingPreConnect", "Connecting", "Recording"}
    THEN transition_to_finalizing(s) ELSE s

\* Network task after run returned Ok: lock; a state that is still
\* BufferingPreConnect, Connecting or Recording becomes Finalizing.
NetTaskEnd(s) ==
    /\ net[s] = "ret_ok"
    /\ st' = [st EXCEPT ![s] = network_end_block(@)]
    /\ net' = [net EXCEPT ![s] = "done"]
    /\ UNCHANGED <<orchVars, hasStream, hasStopTx, sentEnd, rd, audioQ, audioRx,
                   produced, ctrlQ, stopsSent, wire, wrFailed, rxLog, inLeft, consVars>>
    /\ UNCHANGED unitVars

\* ------------------------------------------------- run's read_task (network.rs)
\* Whether the read task forwards an item: a Text message whose JSON has
\* type "final_transcript" and a non-empty string "text".
ForwardsPartialsToo(m) ==
    /\ m.ws = "Text"
    /\ m.type \in {"final_transcript", "partial_transcript"}
    /\ m.text \notin {"NONE", ""}

Forwards(m) ==
    /\ m.ws = "Text"
    /\ m.type = "final_transcript"
    /\ m.text # "NONE"
    /\ m.text # ""

\* One turn of `while let Some(msg) = read.next().await` with item m: forward
\* it or ignore it; Close and Err leave the loop, which ends the task and
\* drops text_tx.
ReadMsg(s, m) ==
    /\ rd[s] = "running"
    /\ m.ws \notin {"Close", "Err"} => inLeft[s] > 0
    /\ inLeft' = [inLeft EXCEPT ![s] = IF m.ws \in {"Close", "Err"} THEN @ ELSE @ - 1]
    /\ rxLog' = [rxLog EXCEPT ![s] = Append(@, m)]
    /\ IF Forwards(m)
       THEN \* text_tx.send(content).await: waits for room in the channel
            /\ Len(textQ[s]) < TEXT_CHANNEL_CAP
            /\ textQ' = [textQ EXCEPT ![s] = Append(@, m.text)]
            /\ fwd' = [fwd EXCEPT ![s] = Append(@, m.text)]
       ELSE UNCHANGED <<textQ, fwd>>
    /\ IF m.ws \in {"Close", "Err"}
       THEN /\ rd' = [rd EXCEPT ![s] = "done"]
            /\ textTx' = [textTx EXCEPT ![s] = FALSE]
       ELSE UNCHANGED <<rd, textTx>>
    /\ UNCHANGED <<orchVars, sessVars, net, sentEnd, audioQ, audioRx, produced, ctrlQ,
                   stopsSent, wire, wrFailed, cons, curText, injected, raised>>
    /\ UNCHANGED unitVars

\* read.next() yields None (the stream ended): the loop and the task end.
ReadStreamEnd(s) ==
    /\ rd[s] = "running"
    /\ rd' = [rd EXCEPT ![s] = "done"]
    /\ textTx' = [textTx EXCEPT ![s] = FALSE]
    /\ UNCHANGED <<orchVars, sessVars, net, sentEnd, audioQ, audioRx, produced, ctrlQ,
                   stopsSent, wire, wrFailed, rxLog, inLeft, cons, curText, textQ, fwd,
                   injected, raised>>
    /\ UNCHANGED unitVars

\* ------------------------------------------ injection consumer task (main.rs)
\* The consumer's locked block: s.transition_to_recording(); s.begin_injection().
recv_lock_block(s) == begin_injection(transition_to_recording(s))

\* Variant of the consumer's receive that leaves the transcript in the channel.
ConsumerRecvNoPop(s) ==
    /\ cons[s] = "recv"
    /\ textQ[s] # <<>>
    /\ Len(injected[s]) < MaxInbound + 2
    /\ curText' = [curText EXCEPT ![s] = Head(textQ[s])]
    /\ st' = [st EXCEPT ![s] = recv_lock_block(@)]
    /\ cons' = [cons EXCEPT ![s] = "inject"]
    /\ UNCHANGED <<orchVars, hasStream, hasStopTx, netVars, textQ, textTx, fwd,
                   injected, raised>>
    /\ UNCHANGED unitVars

\* text_rx.recv() yields Some(text); then, under the lock,
\* transition_to_recording and begin_injection.
ConsumerRecv(s) ==
    /\ cons[s] = "recv"
    /\ textQ[s] # <<>>
    /\ curText' = [curText EXCEPT ![s] = Head(textQ[s])]
    /\ textQ' = [textQ EXCEPT ![s] = Tail(@)]
    /\ st' = [st EXCEPT ![s] = recv_lock_block(@)]
    /\ cons' = [cons EXCEPT ![s] = "inject"]
    /\ UNCHANGED <<orchVars, hasStream, hasStopTx, netVars, textTx, fwd, injected,
                   raised>>
    /\ UNCHANGED unitVars

\* injector::inject_text(&text) returns (ok is its outcome; an error is only
\* logged); then lock, finish_injection, and the next turn of the loop.
ConsumerFinish(s, ok) ==
    /\ cons[s] = "inject"
    /\ injected' = [injected EXCEPT ![s] = Append(@, [text |-> curText[s], ok |-> ok])]
    /\ st' = [st EXCEPT ![s] = finish_injection(@)]
    /\ cons' = [cons EXCEPT ![s] = "recv"]
    /\ UNCHANGED <<orchVars, hasStream, hasStopTx, netVars, curText, textQ, textTx, fwd,
                   raised>>
    /\ UNCHANGED unitVars

\* text_rx.recv() yields None (channel empty, every sender dropped); then,
\* under the lock, should_finalize = state is Finalizing{0}.
ConsumerClosed(s) ==
    /\ cons[s] = "recv"
    /\ textQ[s] = <<>>
    /\ ~textTx[s]
    /\ cons' = [cons EXCEPT ![s] = IF st[s] = Finalizing(0) THEN "signal" ELSE "done"]
    /\ UNCHANGED <<orchVars, sessVars, netVars, curText, textQ, textTx, fwd, injected,
                   raised>>
    /\ UNCHANGED unitVars

\* if should_finalize: finalize_tx_for_injection.send(()).
ConsumerSignal(s) ==
    /\ cons[s] = "signal"
    /\ finalizeQ' = Append(finalizeQ, s)
    /\ raised' = [raised EXCEPT ![s] = @ + 1]
    /\ cons' = [cons EXCEPT ![s] = "done"]
    /\ UNCHANGED <<cmdQ, cmdsLeft, active, nextSid, rejects, sessLeft, sessVars,
                   netVars, curText, textQ, textTx, fwd, injected>>
    /\ UNCHANGED unitVars

\* ------------------------------------------------ capture callback (audio.rs)
\* The callback's try_send of a chunk succeeds: the stream is alive, audio_rx
\* is alive and the channel has room.
CaptureDeliver(s) ==
    /\ hasStream[s]
    /\ audioRx[s]
    /\ produced[s] < MaxChunks
    /\ Len(audioQ[s]) < AUDIO_CHANNEL_CAP
    /\ produced' = [produced EXCEPT ![s] = @ + 1]
    /\ audioQ' = [audioQ EXCEPT ![s] = Append(@, produced[s] + 1)]
    /\ UNCHANGED <<orchVars, sessVars, net, sentEnd, rd, audioRx, ctrlQ, stopsSent,
                   wire, wrFailed, rxLog, inLeft, consVars>>
    /\ UNCHANGED unitVars

\* ------------------------------------------------------------ specification
SessionStep(s) ==
    \/ NetConnecting(s)
    \/ RunConnectErr(s)
    \/ RunConnectOk(s)
    \/ NetSetError(s)
    \/ NetSendFinalize(s)
    \/ \E wrOk \in BOOLEAN : SendLoopStop(s, wrOk)
    \/ \E wrOk \in BOOLEAN : SendLoopChunk(s, wrOk)
    \/ \E wrOk \in BOOLEAN : SendLoopAudioClosed(s, wrOk)
    \/ RunReturnOk(s)
    \/ NetTaskEnd(s)
    \/ ReadStreamEnd(s)
    \/ ConsumerRecv(s)
    \/ \E ok \in BOOLEAN : ConsumerFinish(s, ok)
    \/ ConsumerClosed(s)
    \/ ConsumerSignal(s)
    \/ CaptureDeliver(s)

Next ==
    \/ UiStart
    \/ UiStop
    \/ HandleFinalize
    \/ \E audioOk \in BOOLEAN : HandleStart(audioOk)
    \/ HandleStop
    \/ \E s \in Sessions : SessionStep(s)
    \/ \E s \in Sessions, m \in OrchMsgs : ReadMsg(s, m)

Spec == Init /\ [][Next]_vars

\* The same program with room for a second session.
SpecTwo == InitTwo /\ [][Next]_vars

\* The same program under fair scheduling of the orchestrator loop and of
\* every session's tasks; the user and the remote service are not obliged
\* to act.
OrchStep ==
    \/ HandleFinalize
    \/ \E audioOk \in BOOLEAN : HandleStart(audioOk)
    \/ HandleStop

TaskStep(s) ==
    \/ NetConnecting(s)
    \/ RunConnectErr(s) \/ RunConnectOk(s)
    \/ NetSetError(s)
    \/ NetSendFinalize(s)
    \/ \E wrOk \in BOOLEAN : SendLoopStop(s, wrOk)
    \/ \E wrOk \in BOOLEAN : SendLoopChunk(s, wrOk)
    \/ \E wrOk \in BOOLEAN : SendLoopAudioClosed(s, wrOk)
    \/ RunReturnOk(s)
    \/ NetTaskEnd(s)
    \/ ConsumerRecv(s)
    \/ \E ok \in BOOLEAN : ConsumerFinish(s, ok)
    \/ ConsumerClosed(s)
    \/ ConsumerSignal(s)

SpecFair ==
    /\ Init
    /\ [][Next]_vars
    /\ WF_vars(OrchStep)
    /\ \A s \in Sessions : WF_vars(TaskStep(s))

\* ---------------------------------------------------- orchestrator claims
ActiveKinds == {"BufferingPreConnect", "Connecting", "Recording", "Finalizing"}

\* C2: in every step of the orchestrator and its tasks, a session that is
\* Finalizing with pending_injections > 0 does not become Idle.
C2_NoIdleWhilePending ==
    [][\A s \in Sessions :
         (st[s].k = "Finalizing" /\ st[s].n > 0) => st'[s].k # "Idle"]_vars

\* C3: under fair scheduling, once the active session's read task has ended,
\* its transcript channel is drained, no injection is pending and run has
\* returned, the session is eventually torn down and its state is Idle.
C3_ClosedLeadsToIdle ==
    \A s \in Sessions :
        (/\ active = s
         /\ rd[s] = "done"
         /\ textQ[s] = <<>>
         /\ cons[s] # "inject"
         /\ net[s] = "done")
            ~> (active # s /\ st[s] = Idle)

\* C26: whenever the orchestrator handles a finalize signal and removes a
\* session, that session is the one whose task sent the signal (signals in
\* the finalize channel are followed with the session that sent them).
C26_FinalizeTearsDownItsSender ==
    [][(/\ finalizeQ # <<>>
        /\ finalizeQ' = Tail(finalizeQ)
        /\ active # 0
        /\ active' = 0)
       => Head(finalizeQ) = active]_vars

\* C4: a StartRecording handled while the active session is
\* BufferingPreConnect, Connecting, Recording or Finalizing is refused,
\* and handling it only removes the command and logs the refusal:
\* session state, Session object, capture handle, control sender, channels
\* and tasks are unchanged, and nothing is queued.
C4_StartRejected ==
    /\ [][(/\ cmdQ # <<>>
           /\ Head(cmdQ) = "Start"
           /\ cmdQ' = Tail(cmdQ)
           /\ active # 0
           /\ st[active].k \in ActiveKinds)
          => /\ rejects' = rejects + 1
             /\ UNCHANGED <<cmdsLeft, active, nextSid, sessLeft, finalizeQ, sessVars,
                            netVars, consVars>>]_vars

\* A StartRecording has been refused while the session was Finalizing, and
\* its queue entry is gone.
C4_Witness ==
    /\ rejects > 0
    /\ cmdQ = <<>>
    /\ active # 0
    /\ st[active].k = "Finalizing"

\* ------------------------------- one session with its owner left open
\* The Session's owner may call stop_network, stop_capture and the locked
\* block of StopRecording in any order, or drop the Session.
EnvStopNetwork(s) ==
    /\ hasStopTx[s]
    /\ stop_network(s)
    /\ UNCHANGED <<orchVars, st, hasStream, net, sentEnd, rd, audioQ, audioRx, produced,
                   wire, wrFailed, rxLog, inLeft, consVars, unitVars>>

EnvStopCapture(s) ==
    /\ hasStream[s]
    /\ stop_capture(s)
    /\ UNCHANGED <<orchVars, st, hasStopTx, netVars, consVars, unitVars>>

EnvStopLock(s) ==
    /\ can_stop(st[s])
    /\ st' = [st EXCEPT ![s] = transition_to_finalizing(@)]
    /\ UNCHANGED <<orchVars, hasStream, hasStopTx, netVars, consVars, unitVars>>

EnvDropSession(s) ==
    /\ hasStream[s] \/ hasStopTx[s]
    /\ hasStream' = DropStream(hasStream, s)
    /\ hasStopTx' = DropStream(hasStopTx, s)
    /\ UNCHANGED <<orchVars, st, netVars, consVars, unitVars>>

\* Session 1 as StartRecording has just created it: state
\* BufferingPreConnect, both tasks spawned, capture running.  nCmds and nIn
\* are the budgets of UI commands and of inbound messages.
InitSession(nCmds, nIn) ==
    /\ RingInit(0)
    /\ SmInit(0)
    /\ CapInit(0)
    /\ LockInit(FALSE)
    /\ AccInit(0)
    /\ cmdQ = <<>>
    /\ cmdsLeft = nCmds
    /\ active = 1
    /\ nextSid = 2
    /\ sessLeft = 0
    /\ rejects = 0
    /\ finalizeQ = <<>>
    /\ st = [s \in Sessions |-> IF s = 1 THEN BufferingPreConnect ELSE Idle]
    /\ hasStream = [s \in Sessions |-> s = 1]
    /\ hasStopTx = [s \in Sessions |-> s = 1]
    /\ net = [s \in Sessions |-> IF s = 1 THEN "start" ELSE "none"]
    /\ sentEnd = [s \in Sessions |-> FALSE]
    /\ rd = [s \in Sessions |-> "none"]
    /\ cons = [s \in Sessions |-> IF s = 1 THEN "recv" ELSE "none"]
    /\ curText = [s \in Sessions |-> ""]
    /\ audioQ = [s \in Sessions |-> <<>>]
    /\ audioRx = [s \in Sessions |-> s = 1]
    /\ produced = [s \in Sessions |-> 0]
    /\ ctrlQ = [s \in Sessions |-> 0]
    /\ stopsSent = [s \in Sessions |-> 0]
    /\ textQ = [s \in Sessions |-> <<>>]
    /\ textTx = [s \in Sessions |-> s = 1]
    /\ wire = [s \in Sessions |-> <<>>]
    /\ wrFailed = [s \in Sessions |-> FALSE]
    /\ rxLog = [s \in Sessions |-> <<>>]
    /\ inLeft = [s \in Sessions |-> IF s = 1 THEN nIn ELSE 0]
    /\ fwd = [s \in Sessions |-> <<>>]
    /\ injected = [s \in Sessions |-> <<>>]
    /\ raised = [s \in Sessions |-> 0]

InitNet == InitSession(0, MaxInbound + 1)

NextNet ==
    \/ EnvStopNetwork(1)
    \/ EnvStopCapture(1)
    \/ EnvStopLock(1)
    \/ EnvDropSession(1)
    \/ SessionStep(1)
    \/ \E m \in NetMsgs : ReadMsg(1, m)

SpecNet == InitNet /\ [][NextNet]_vars

\* C16: over its whole life a session's tasks raise the finalize signal at
\* most once, counting the network task's error path and the consumer.
C16_FinalizeRaisedAtMostOnce == \A s \in Sessions : raised[s] <= 1

\* run has returned Err: the connect failed and no read task was spawned.
ConnectFailed(s) ==
    \/ net[s] \in {"ret_err", "err_set"}
    \/ net[s] = "done" /\ rd[s] = "none"

\* C17: after a failed connect run is not in its connect or send loop again
\* and nothing was written to the websocket; the network task stores Error
\* whatever the state was; and a StartRecording handled from then on, while
\* that session is still the active one, is accepted.
C17_ConnectFailure ==
    /\ [](\A s \in Sessions : ConnectFailed(s) => wire[s] = <<>> /\ rd[s] = "none")
    /\ [][\A s \in Sessions :
            /\ ConnectFailed(s) => ConnectFailed(s)'
            /\ (net[s] = "ret_err" /\ net'[s] = "err_set") => st'[s] = Error
            /\ (/\ active = s
                /\ net[s] \in {"err_set", "done"}
                /\ ConnectFailed(s)
                /\ cmdQ # <<>>
                /\ Head(cmdQ) = "Start"
                /\ cmdQ' = Tail(cmdQ))
               => rejects' = rejects]_vars

\* After an early StopRecording the connect failed, the state went from
\* Finalizing to Error, and a second session has been started.
C17_Witness ==
    /\ net[1] = "done"
    /\ rd[1] = "none"
    /\ st[1] = Error
    /\ ctrlQ[1] = 1
    /\ active = 2

\* ------------------------------- one session and its StopRecording commands
\* Session 1 just created, with the UI sending StopRecording only.
InitStop == InitSession(MaxCmds, MaxInbound)

NextStop ==
    \/ UiStop
    \/ HandleStop
    \/ HandleFinalize
    \/ SessionStep(1)
    \/ \E m \in OrchMsgs : ReadMsg(1, m)

SpecStop == InitStop /\ [][NextStop]_vars

\* StopRecording is taken from the command channel in this step.
StopHandled == cmdQ # <<>> /\ Head(cmdQ) = "Stop" /\ cmdQ' = Tail(cmdQ)

\* C20: StopRecording with an active session releases the capture handle,
\* takes the control sender and sends Stop on it if it was still there, and
\* moves the state to Finalizing{0} if can_stop held and leaves it otherwise;
\* no session is ever sent more than one Stop; StopRecording without an
\* active session changes nothing.
C20_StopRecording ==
    /\ [](\A s \in Sessions : stopsSent[s] <= 1)
    /\ [][StopHandled =>
            IF active # 0
            THEN /\ ~hasStream'[active]
                 /\ ~hasStopTx'[active]
                 /\ stopsSent'[active] =
                        stopsSent[active]
                        + (IF hasStopTx[active] /\ audioRx[active] THEN 1 ELSE 0)
                 /\ st'[active] =
                        (IF st[active].k \in {"BufferingPreConnect", "Connecting",
                                              "Recording"}
                         THEN Finalizing(0) ELSE st[active])
                 /\ active' = active
            ELSE UNCHANGED <<cmdsLeft, active, nextSid, sessLeft, rejects, finalizeQ,
                             sessVars, netVars, consVars>>]_vars

\* A second StopRecording has been handled for the session: one Stop was
\* sent, the state is still Finalizing.
C20_Witness ==
    /\ cmdsLeft = 0
    /\ cmdQ = <<>>
    /\ active = 1
    /\ stopsSent[1] = 1
    /\ st[1].k = "Finalizing"

\* The edges of the specified transition table.
TableEdge(a, b) ==
    \/ a.k = "BufferingPreConnect" /\ b = Connecting
    \/ a.k \in {"BufferingPreConnect", "Connecting"} /\ b = Recording
    \/ a.k \in {"BufferingPreConnect", "Connecting", "Recording"} /\ b = Finalizing(0)
    \/ a.k = "Finalizing" /\ b.k = "Finalizing" /\ (b.n = a.n + 1 \/ a.n = b.n + 1)
    \/ a = Finalizing(0) /\ b = Idle
    \/ b = Error

\* StartRecording constructs session s in this step.
Created(s) == net[s] = "none" /\ net'[s] = "start"

\* C11: every change of the RecordingState of an existing session follows
\* an edge of the transition table.
C11_ChangesFollowTable ==
    [][\A s \in Sessions :
         (st'[s] # st[s] /\ ~Created(s)) => TableEdge(st[s], st'[s])]_vars

\* ------------------------------------------------------- session claims
\* Number of end_stream frames in a sequence of written frames.
EosCount(w) == Cardinality({i \in 1..Len(w) : w[i] = EndStream})

\* run has left its send loop, resp. has returned Ok after a connect.
LoopEnded(s) == net[s] \in {"await_read", "ret_ok", "done"} /\ rd[s] # "none"
Returned(s) == net[s] \in {"ret_ok", "done"} /\ rd[s] # "none"

\* C1 as stated: when run returns after a connect, exactly one end_stream
\* frame has been written.
C1_ExactlyOnceAtReturn ==
    \A s \in Sessions : Returned(s) => EosCount(wire[s]) = 1

\* C1, amended: end_stream is never written twice; when the send loop has
\* ended it has been written exactly once if every websocket write
\* succeeded, and not at all if a write failed.
C1_OnceUnlessWriteFailed ==
    \A s \in Sessions :
        /\ EosCount(wire[s]) <= 1
        /\ LoopEnded(s) => EosCount(wire[s]) = (IF wrFailed[s] THEN 0 ELSE 1)

\* run has returned having written one end_stream on the audio-closed path
\* while a Stop is still waiting in the control channel.
C1_Witness ==
    /\ net[1] = "ret_ok"
    /\ ~wrFailed[1]
    /\ ctrlQ[1] = 1
    /\ EosCount(wire[1]) = 1

\* The items the claims expect to be forwarded, and their texts.
IsFinalNonEmpty(m) ==
    m \in {TextMsg("final_transcript", "a"), TextMsg("final_transcript", "b")}

TextsOf(log) == [i \in 1..Len(log) |-> log[i].text]

\* C8: what the read task has sent on text_tx is, in order, the texts of the
\* received final_transcript messages with a present, non-empty text.
C8_ForwardsFinalNonEmpty ==
    \A s \in Sessions : fwd[s] = TextsOf(SelectSeq(rxLog[s], IsFinalNonEmpty))

\* A partial transcript was received and not forwarded, a final one was.
C8_Witness ==
    /\ Len(rxLog[1]) = 2
    /\ rxLog[1][1] = TextMsg("partial_transcript", "a")
    /\ fwd[1] = <<"b">>

\* C9: the texts handed to inject_text, followed by the one in flight and by
\* those still in the channel, are the forwarded texts in order; when the
\* consumer raises (or has raised) its finalize signal, every forwarded text
\* has been handed to inject_text and has returned.
C9_InjectedOnceInOrder ==
    \A s \in Sessions :
        /\ TextsOf(injected[s])
             \o (IF cons[s] = "inject" THEN <<curText[s]>> ELSE <<>>)
             \o textQ[s] = fwd[s]
        /\ cons[s] \in {"signal", "done"} => TextsOf(injected[s]) = fwd[s]

\* The consumer is about to raise finalize after two injections, one failed.
C9_Witness ==
    /\ cons[1] = "signal"
    /\ Len(injected[1]) = 2
    /\ ~injected[1][1].ok
    /\ injected[1][2].ok

\* C10: when run has returned after a connect, the read task has ended,
\* text_tx is dropped and every final non-empty transcript received has been
\* sent on it.
C10_ReturnAfterReadTask ==
    \A s \in Sessions :
        Returned(s) =>
            /\ rd[s] = "done"
            /\ ~textTx[s]
            /\ Len(fwd[s]) = Len(SelectSeq(rxLog[s], IsFinalNonEmpty))

\* run has returned after a transcript was received and forwarded.
C10_Witness ==
    /\ net[1] = "ret_ok"
    /\ rd[1] = "done"
    /\ fwd[1] = <<"a">>

\* Injection operations of a session that have begun and not finished: the
\* consumer injects one transcript at a time.
InFlight(s) == IF cons[s] = "inject" THEN 1 ELSE 0

\* C27: whenever a session's state is Finalizing{n}, n is the number of its
\* injection operations in flight.
C27_PendingCountsInFlight ==
    \A s \in Sessions : st[s].k = "Finalizing" => st[s].n = InFlight(s)

\* C25: in every session the end_stream frame, once written, is the last
\* frame on the websocket in every later state: no audio frame follows it
\* and the send loop writes nothing more.
C25_NothingAfterEndStream ==
    \A s \in Sessions : \A i \in 1..Len(wire[s]) :
        wire[s][i] = EndStream => i = Len(wire[s])

\* run has returned after writing an audio frame and then end_stream on the
\* Stop path.
C25_Witness ==
    /\ net[1] = "done"
    /\ stopsSent[1] > 0
    /\ ctrlQ[1] = 0
    /\ ~wrFailed[1]
    /\ Len(wire[1]) >= 2
    /\ wire[1][Len(wire[1])] = EndStream

\* C28: once end_stream has been written with no write failure, every chunk
\* the capture callback placed on the audio channel has been written as an
\* audio frame (the capture stream is gone by then, so every chunk was
\* placed before).
C28_QueuedChunksSentBeforeEndStream ==
    \A s \in Sessions :
        (EosCount(wire[s]) > 0 /\ ~wrFailed[s]) =>
            \A c \in 1..produced[s] :
                \E i \in 1..Len(wire[s]) : wire[s][i] = AudioFrame(c)

\* ------------------------------------------- ring buffer calls (audio.rs)
\* The samples of one call of push_samples: the next n samples captured,
\* numbered in capture order.
Captured(n) == [i \in 1..n |-> Len(pushedAll) + i]

\* A chunk of n samples that are not in the buffer, for push_front_samples.
Foreign(n) == [i \in 1..n |-> 0 - i]

RingCall(op) ==
    /\ ringLeft > 0
    /\ ringLeft' = ringLeft - 1
    /\ prevOp' = lastOp
    /\ lastOp' = op
    /\ UNCHANGED <<progVars, smVars, capVars, lockVars, accVars>>

\* ring_buffer.push_samples(&samples) with n samples.
RingPush(n) ==
    /\ samples' = push_samples(Capacity, samples, Captured(n))
    /\ pushedAll' = pushedAll \o Captured(n)
    /\ onlyPush' = onlyPush
    /\ RingCall([NoOp EXCEPT !.name = "push_samples", !.chunk = Captured(n),
                             !.pre = samples])

\* ring_buffer.pop_chunk(max_len).
RingPop(max_len) ==
    /\ samples' = pop_chunk(samples, max_len).rest
    /\ onlyPush' = FALSE
    /\ pushedAll' = pushedAll
    /\ RingCall([NoOp EXCEPT !.name = "pop_chunk", !.max = max_len, !.pre = samples,
                             !.some = pop_chunk(samples, max_len).some,
                             !.ret = pop_chunk(samples, max_len).chunk])

\* ring_buffer.push_front_samples(&chunk).
RingPushFront(chunk) ==
    /\ samples' = push_front_samples(samples, chunk)
    /\ onlyPush' = FALSE
    /\ pushedAll' = pushedAll
    /\ RingCall([NoOp EXCEPT !.name = "push_front_samples", !.chunk = chunk,
                             !.pre = samples])

\* ring_buffer.clear().
RingClear ==
    /\ samples' = clear(samples)
    /\ onlyPush' = FALSE
    /\ pushedAll' = pushedAll
    /\ RingCall([NoOp EXCEPT !.name = "clear", !.pre = samples])

\* ring_buffer.push_front_samples(&chunk) with the chunk pop_chunk has just
\* returned, as enqueue_and_flush calls it.
RingPutBack ==
    /\ lastOp.name = "pop_chunk"
    /\ lastOp.some
    /\ RingPushFront(lastOp.ret)

\* The four operations called in any order with any arguments.
NextRing ==
    \/ \E n \in 0..(Capacity + 1) : RingPush(n)
    \/ \E max_len \in 0..(Capacity + 1) : RingPop(max_len)
    \/ \E n \in 1..2 : RingPushFront(Foreign(n))
    \/ RingPutBack
    \/ RingClear

InitRing ==
    /\ RingInit(MaxRingOps)
    /\ SmInit(0)
    /\ CapInit(0)
    /\ LockInit(FALSE)
    /\ AccInit(0)
    /\ cmdQ = <<>>
    /\ cmdsLeft = 0
    /\ active = 0
    /\ nextSid = 1
    /\ sessLeft = 0
    /\ rejects = 0
    /\ finalizeQ = <<>>
    /\ SessionsInit

SpecRing == InitRing /\ [][NextRing]_vars

\* ======================================================== ring buffer claims
\* The last n elements of a sequence.
LastN(seq, n) == SubSeq(seq, Len(seq) - n + 1, Len(seq))

\* C5: starting empty, after any sequence of push calls (empty, shorter than
\* the capacity, or at least the capacity long) the buffer holds, in order,
\* the last min(T, C) of the T samples pushed so far; and the capacity-5
\* scenario gives [2,3,4,5,6] and then [8,9,10,11,12].
C5_PushKeepsMostRecent ==
    /\ onlyPush =>
         samples = LastN(pushedAll, Min(Len(pushedAll), Capacity))
    /\ push_samples(5, push_samples(5, <<>>, <<1, 2, 3>>), <<4, 5, 6>>) = <<2, 3, 4, 5, 6>>
    /\ push_samples(5, <<2, 3, 4, 5, 6>>, <<7, 8, 9, 10, 11, 12>>) = <<8, 9, 10, 11, 12>>

\* A push shorter than the capacity has evicted some but not all of a
\* non-empty buffer.
C5_Witness ==
    /\ onlyPush
    /\ lastOp.name = "push_samples"
    /\ Len(lastOp.chunk) > 0
    /\ Len(lastOp.chunk) < Capacity
    /\ Len(lastOp.pre) + Len(lastOp.chunk) > Capacity
    /\ samples = LastN(pushedAll, Capacity)

\* C6: the buffer never holds more than Capacity samples, whatever sequence
\* of push, pop_chunk, push_front and clear is applied to it.
C6_LengthWithinCapacity == Len(samples) <= Capacity

\* C7: push_front(S) with S non-empty followed by pop_chunk(len(S)) returns S
\* in the same order and leaves the buffer as it was before the push_front.
C7_PutBackRoundTrip ==
    ( /\ prevOp.name = "push_front_samples"
      /\ prevOp.chunk # <<>>
      /\ lastOp.name = "pop_chunk"
      /\ lastOp.max = Len(prevOp.chunk) )
    => ( /\ lastOp.some
         /\ lastOp.ret = prevOp.chunk
         /\ samples = prevOp.pre )

\* A two-sample chunk was pushed in front of a non-empty buffer and popped.
C7_Witness ==
    /\ prevOp.name = "push_front_samples"
    /\ Len(prevOp.chunk) = 2
    /\ prevOp.pre # <<>>
    /\ lastOp.name = "pop_chunk"
    /\ lastOp.max = 2
    /\ lastOp.ret = prevOp.chunk

\* C18: after the connect a failed websocket write ends only the send loop
\* and a read error only the read task; run does not return Err, the network
\* task then moves a BufferingPreConnect, Connecting or Recording state to
\* Finalizing{0} and leaves any other state, and a state is Error only after
\* a failed connect.
C18_MidStreamErrors ==
    /\ [](\A s \in Sessions :
            /\ rd[s] # "none" => net[s] \notin {"ret_err", "err_set"}
            /\ st[s] = Error => ConnectFailed(s))
    /\ [][\A s \in Sessions :
            /\ (wrFailed'[s] /\ ~wrFailed[s])
                   => (rd'[s] = rd[s] /\ net'[s] = "await_read")
            /\ (rd[s] = "running" /\ rd'[s] = "done") => net'[s] = net[s]
            /\ (net[s] = "ret_ok" /\ net'[s] = "done")
                   => st'[s] = (IF st[s].k \in {"BufferingPreConnect", "Connecting",
                                                "Recording"}
                                THEN Finalizing(0) ELSE st[s])]_vars

\* An audio write failed, the read task ended on a read error, run returned
\* Ok and the network task moved the state to Finalizing{0}.
C18_Witness ==
    /\ wrFailed[1]
    /\ wire[1] = <<>>
    /\ rxLog[1] = <<OtherMsg("Err")>>
    /\ net[1] = "done"
    /\ hasStopTx[1]
    /\ st[1] = Finalizing(0)

\* ------------------------------- enqueue_and_flush on its own (audio.rs)
\* The outcome of sender.try_send on the bounded channel.
try_send ==
    IF ~chanOpen THEN "Closed"
    ELSE IF Len(chanQ) >= ChanCap THEN "Full"
    ELSE "Ok"

\* What the ring buffer's bookkeeping of direct calls keeps during a callback.
CbFrame ==
    UNCHANGED <<progVars, smVars, lockVars, accVars, ringLeft, onlyPush, lastOp, prevOp>>

\* A callback enters enqueue_and_flush with n new samples: lock the ring
\* buffer and push_samples.
CbEnter(n) ==
    /\ cbPc = "idle"
    /\ cbLeft > 0
    /\ cbLeft' = cbLeft - 1
    /\ samples' = push_samples(Capacity, samples, Captured(n))
    /\ pushedAll' = pushedAll \o Captured(n)
    /\ evicted' = (evicted \/ Len(samples) + n > Capacity)
    /\ cbPc' = "flush"
    /\ UNCHANGED <<chanQ, chanOpen, delivered>>
    /\ CbFrame

\* Variant of the Full arm that does not put the chunk back.
CbSendFullDrops ==
    /\ cbPc = "flush"
    /\ pop_chunk(samples, ChunkSize).some
    /\ try_send = "Full"
    /\ samples' = pop_chunk(samples, ChunkSize).rest
    /\ cbPc' = "idle"
    /\ UNCHANGED <<chanQ, chanOpen, delivered, evicted, cbLeft, pushedAll>>
    /\ CbFrame

\* pop_chunk(CHUNK_SIZE) is Some(chunk) and try_send(chunk) is Ok.
CbSendOk ==
    /\ cbPc = "flush"
    /\ pop_chunk(samples, ChunkSize).some
    /\ try_send = "Ok"
    /\ samples' = pop_chunk(samples, ChunkSize).rest
    /\ chanQ' = Append(chanQ, pop_chunk(samples, ChunkSize).chunk)
    /\ delivered' = delivered \o pop_chunk(samples, ChunkSize).chunk
    /\ UNCHANGED <<chanOpen, evicted, cbLeft, cbPc, pushedAll>>
    /\ CbFrame

\* Variant of the Full arm that puts the chunk back behind the rest.
CbSendFullToBack ==
    /\ cbPc = "flush"
    /\ pop_chunk(samples, ChunkSize).some
    /\ try_send = "Full"
    /\ samples' = pop_chunk(samples, ChunkSize).rest
                      \o pop_chunk(samples, ChunkSize).chunk
    /\ cbPc' = "idle"
    /\ UNCHANGED <<chanQ, chanOpen, delivered, evicted, cbLeft, pushedAll>>
    /\ CbFrame

\* try_send is Err(Full(chunk)): push_front_samples(&chunk); break.
CbSendFull ==
    /\ cbPc = "flush"
    /\ pop_chunk(samples, ChunkSize).some
    /\ try_send = "Full"
    /\ samples' = push_front_samples(pop_chunk(samples, ChunkSize).rest,
                                     pop_chunk(samples, ChunkSize).chunk)
    /\ cbPc' = "idle"
    /\ UNCHANGED <<chanQ, chanOpen, delivered, evicted, cbLeft, pushedAll>>
    /\ CbFrame

\* Variant of the Closed arm that puts the chunk back instead of clearing.
CbSendClosedKeeps ==
    /\ cbPc = "flush"
    /\ pop_chunk(samples, ChunkSize).some
    /\ try_send = "Closed"
    /\ samples' = push_front_samples(pop_chunk(samples, ChunkSize).rest,
                                     pop_chunk(samples, ChunkSize).chunk)
    /\ cbPc' = "idle"
    /\ UNCHANGED <<chanQ, chanOpen, delivered, evicted, cbLeft, pushedAll>>
    /\ CbFrame

\* try_send is Err(Closed(_)): ring_buffer.clear(); break.
CbSendClosed ==
    /\ cbPc = "flush"
    /\ pop_chunk(samples, ChunkSize).some
    /\ try_send = "Closed"
    /\ samples' = clear(pop_chunk(samples, ChunkSize).rest)
    /\ cbPc' = "idle"
    /\ UNCHANGED <<chanQ, chanOpen, delivered, evicted, cbLeft, pushedAll>>
    /\ CbFrame

\* pop_chunk is None: the while loop and the callback end.
CbDone ==
    /\ cbPc = "flush"
    /\ ~pop_chunk(samples, ChunkSize).some
    /\ cbPc' = "idle"
    /\ UNCHANGED <<samples, chanQ, chanOpen, delivered, evicted, cbLeft, pushedAll>>
    /\ CbFrame

\* The receiver (run's send loop) takes a chunk from the channel.
ChanRecv ==
    /\ chanOpen
    /\ chanQ # <<>>
    /\ chanQ' = Tail(chanQ)
    /\ UNCHANGED <<samples, chanOpen, delivered, evicted, cbLeft, cbPc, pushedAll>>
    /\ CbFrame

\* The receiver is dropped (run returns) with whatever is still queued.
ChanClose ==
    /\ chanOpen
    /\ chanOpen' = FALSE
    /\ chanQ' = <<>>
    /\ UNCHANGED <<samples, delivered, evicted, cbLeft, cbPc, pushedAll>>
    /\ CbFrame

NextCapture ==
    \/ \E n \in 0..(Capacity + 1) : CbEnter(n)
    \/ CbSendOk
    \/ CbSendFull
    \/ CbSendClosed
    \/ CbDone
    \/ ChanRecv
    \/ ChanClose

InitCapture ==
    /\ RingInit(0)
    /\ SmInit(0)
    /\ CapInit(MaxCallbacks)
    /\ LockInit(FALSE)
    /\ AccInit(0)
    /\ cmdQ = <<>>
    /\ cmdsLeft = 0
    /\ active = 0
    /\ nextSid = 1
    /\ sessLeft = 0
    /\ rejects = 0
    /\ finalizeQ = <<>>
    /\ SessionsInit

SpecCapture == InitCapture /\ [][NextCapture]_vars

\* C19: the delivered samples are distinct pushed samples in capture order
\* (samples are numbered as they are pushed); while the ring buffer has not
\* evicted and the channel is open, the delivered samples followed by the
\* ring buffer's content are exactly the pushed samples; and a callback
\* stops flushing only with the ring buffer empty, the channel full (the
\* chunk put back where it was) or the channel closed.
C19_DeliveredInCaptureOrder ==
    /\ [](/\ \A i \in 1..Len(delivered) : delivered[i] \in 1..Len(pushedAll)
          /\ \A i, j \in 1..Len(delivered) : i < j => delivered[i] < delivered[j]
          /\ (~evicted /\ chanOpen) => delivered \o samples = pushedAll)
    /\ [][(cbPc = "flush" /\ cbPc' = "idle") =>
            \/ samples' = <<>>
            \/ Len(chanQ) >= ChanCap /\ chanOpen /\ samples' = samples]_vars

\* A callback has stopped on a full channel with a chunk put back, after an
\* earlier chunk was delivered and with nothing evicted.
C19_Witness ==
    /\ cbPc = "idle"
    /\ ~evicted
    /\ chanOpen
    /\ Len(chanQ) = ChanCap
    /\ Len(samples) > ChunkSize
    /\ delivered # <<>>

\* A step of the callback itself: the receiver's side of the channel is
\* left as it was.
CbStep == CbSendOk \/ CbSendFull \/ CbSendClosed \/ CbDone

\* C21: when the drain loop finds the channel full, the step that follows
\* in the callback leaves the ring buffer exactly as it was before the pop,
\* sends nothing and ends the invocation; and an invocation that ends with a
\* non-empty ring buffer found the channel open and full.
C21_FullPutsBack ==
    /\ [][(/\ cbPc = "flush"
           /\ pop_chunk(samples, ChunkSize).some
           /\ try_send = "Full"
           /\ chanQ' = chanQ
           /\ chanOpen' = chanOpen)
          => (/\ samples' = samples
              /\ delivered' = delivered
              /\ cbPc' = "idle")]_vars
    /\ [][(cbPc = "flush" /\ cbPc' = "idle" /\ samples' # <<>>)
          => (try_send = "Full" /\ chanQ' = chanQ /\ samples' = samples)]_vars

\* An invocation has ended on a full channel with the ring buffer at
\* capacity and no invocation left to run.
C21_Witness ==
    /\ cbPc = "idle"
    /\ cbLeft = 0
    /\ chanOpen
    /\ Len(chanQ) = ChanCap
    /\ Len(samples) = Capacity

\* The capture thread runs the callback to its end once it has been entered.
SpecCaptureFair == SpecCapture /\ WF_vars(CbStep)

\* C22: when the drain loop finds the channel closed, the callback's next
\* step empties the ring buffer and ends the invocation; while draining, a
\* step of the callback is always possible (it never waits on the channel),
\* every iteration that continues shortens the ring buffer, and every
\* invocation that was entered ends.
C22_ClosedClearsAndLoopEnds ==
    /\ [][(/\ cbPc = "flush"
           /\ pop_chunk(samples, ChunkSize).some
           /\ try_send = "Closed"
           /\ chanOpen' = chanOpen)
          => (samples' = <<>> /\ cbPc' = "idle" /\ delivered' = delivered)]_vars
    /\ [][(cbPc = "flush" /\ cbPc' = "idle" /\ ~chanOpen) => samples' = <<>>]_vars
    /\ [][(cbPc = "flush" /\ cbPc' = "flush" /\ chanOpen' = chanOpen
           /\ ~(chanQ # <<>> /\ chanQ' = Tail(chanQ) /\ samples' = samples))
          => Len(samples') < Len(samples)]_vars
    /\ [](cbPc = "flush" => ENABLED CbStep)
    /\ (cbPc = "flush") ~> (cbPc = "idle")

\* An invocation has ended on a closed channel: samples that were neither
\* delivered nor evicted are gone from the ring buffer.
C22_Witness ==
    /\ cbPc = "idle"
    /\ ~chanOpen
    /\ ~evicted
    /\ samples = <<>>
    /\ Len(delivered) < Len(pushedAll)

\* --------------------------------- RecordingState on its own (state.rs)
\* Every RecordingState value with pending_injections up to MaxPending.
StateValues ==
    {Idle, BufferingPreConnect, Connecting, Recording, Error}
    \cup {Finalizing(n) : n \in 0..MaxPending}

\* One call on session 1's RecordingState: name is the operation, new the
\* state it leaves, ret what it returns.
StateCall(name, new, ret) ==
    /\ smLeft > 0
    /\ smLeft' = smLeft - 1
    /\ smOp' = name
    /\ smPre' = st[1]
    /\ smRet' = ret
    /\ st' = [st EXCEPT ![1] = new]
    /\ UNCHANGED <<orchVars, hasStream, hasStopTx, netVars, consVars, ringVars,
                   capVars, lockVars, accVars>>

CallCanStart == StateCall("can_start", st[1], can_start(st[1]))
CallCanStop == StateCall("can_stop", st[1], can_stop(st[1]))
CallConnecting ==
    StateCall("transition_to_connecting", transition_to_connecting(st[1]), FALSE)
CallRecording ==
    StateCall("transition_to_recording", transition_to_recording(st[1]), FALSE)
CallFinalizing ==
    StateCall("transition_to_finalizing", transition_to_finalizing(st[1]), FALSE)
CallBegin == StateCall("begin_injection", begin_injection(st[1]), FALSE)
CallFinish == StateCall("finish_injection", finish_injection(st[1]), FALSE)
CallIdle == StateCall("transition_to_idle", transition_to_idle(st[1]), FALSE)
\* *s = RecordingState::Error(..), the network task's assignment
CallSetError == StateCall("set_error", Error, FALSE)
CallStopBlock == StateCall("stop_lock_block", stop_lock_block(st[1]), FALSE)
CallNetworkEndBlock ==
    StateCall("network_end_block", network_end_block(st[1]), FALSE)
CallRecvBlock == StateCall("recv_lock_block", recv_lock_block(st[1]), FALSE)

NextState ==
    \/ CallCanStart
    \/ CallCanStop
    \/ CallConnecting
    \/ CallRecording
    \/ CallFinalizing
    \/ CallBegin
    \/ CallFinish
    \/ CallIdle
    \/ CallSetError
    \/ CallStopBlock
    \/ CallNetworkEndBlock
    \/ CallRecvBlock

InitState ==
    /\ RingInit(0)
    /\ SmInit(MaxStateOps)
    /\ CapInit(0)
    /\ LockInit(FALSE)
    /\ AccInit(0)
    /\ cmdQ = <<>>
    /\ cmdsLeft = 0
    /\ active = 0
    /\ nextSid = 1
    /\ sessLeft = 0
    /\ rejects = 0
    /\ finalizeQ = <<>>
    /\ \E v \in StateValues : st = [s \in Sessions |-> IF s = 1 THEN v ELSE Idle]
    /\ TasksInit

SpecState == InitState /\ [][NextState]_vars

\* C12: can_start is true exactly in Idle and Error, can_stop exactly in
\* BufferingPreConnect, Connecting and Recording; they are never both true
\* and both are false in Finalizing.
C12_GuardsExact ==
    /\ smOp = "can_start" => (smRet <=> smPre.k \in {"Idle", "Error"})
    /\ smOp = "can_stop" =>
           (smRet <=> smPre.k \in {"BufferingPreConnect", "Connecting", "Recording"})
    /\ ~(can_start(st[1]) /\ can_stop(st[1]))
    /\ st[1].k = "Finalizing" => ~can_start(st[1]) /\ ~can_stop(st[1])

\* can_stop has been asked of a Finalizing state with injections pending.
C12_Witness ==
    /\ smOp = "can_stop"
    /\ smPre = Finalizing(1)
    /\ ~smRet

\* C13: transition_to_finalizing on Finalizing{n} leaves Finalizing{n}, and
\* so do StopRecording's locked block and the network task's end block.
C13_FinalizingIdempotent ==
    (/\ smOp \in {"transition_to_finalizing", "stop_lock_block", "network_end_block"}
     /\ smPre.k = "Finalizing")
        => st[1] = smPre

\* transition_to_finalizing has been applied to Finalizing{2}.
C13_Witness ==
    /\ smOp = "transition_to_finalizing"
    /\ smPre = Finalizing(2)
    /\ st[1] = Finalizing(2)

\* C14: in Finalizing, begin_injection adds one to the counter and
\* finish_injection takes one off it, stopping at zero; the counter is never
\* negative.
C14_CounterSaturates ==
    /\ (smOp = "begin_injection" /\ smPre.k = "Finalizing")
           => st[1] = Finalizing(smPre.n + 1)
    /\ (smOp = "finish_injection" /\ smPre.k = "Finalizing")
           => st[1] = Finalizing(IF smPre.n = 0 THEN 0 ELSE smPre.n - 1)
    /\ st[1].n >= 0

\* finish_injection has been applied to Finalizing{0}.
C14_Witness ==
    /\ smOp = "finish_injection"
    /\ smPre = Finalizing(0)
    /\ st[1] = Finalizing(0)

\* C15: the guarded operations leave the state as it is outside their source
\* states, and the consumer's locked block (a transcript arriving) does not
\* move Finalizing, Idle or Error to Recording.
C15_NoOpOutsideSource ==
    /\ (smOp \in {"begin_injection", "finish_injection"} /\ smPre.k # "Finalizing")
           => st[1] = smPre
    /\ (smOp = "transition_to_connecting" /\ smPre.k # "BufferingPreConnect")
           => st[1] = smPre
    /\ (/\ smOp = "transition_to_recording"
        /\ smPre.k \notin {"BufferingPreConnect", "Connecting"})
           => st[1] = smPre
    /\ (smOp = "recv_lock_block" /\ smPre.k \in {"Finalizing", "Idle", "Error"})
           => st[1].k = smPre.k

\* transition_to_recording has been applied to a Finalizing state.
C15_Witness ==
    /\ smOp = "transition_to_recording"
    /\ smPre = Finalizing(1)
    /\ st[1] = Finalizing(1)

\* ------------------------- the RecordingState mutex, lock by lock (main.rs)
\* Mutex::lock: the task waits until the mutex is free and takes it.
LkAcquire(t, from, to) ==
    /\ lkPc[t] = from
    /\ lockOwner = "none"
    /\ lockOwner' = t
    /\ lkPc' = [lkPc EXCEPT ![t] = to]
    /\ UNCHANGED <<lkState, lkLeft>>
    /\ UNCHANGED <<progVars, ringVars, smVars, capVars, accVars>>

\* The calls made through the guard, and the guard's drop at the end of its
\* scope.
LkGroup(t, from, to, new) ==
    /\ lkPc[t] = from
    /\ lockOwner = t
    /\ lkState' = new
    /\ lockOwner' = "none"
    /\ lkPc' = [lkPc EXCEPT ![t] = to]
    /\ UNCHANGED lkLeft
    /\ UNCHANGED <<progVars, ringVars, smVars, capVars, accVars>>

\* A step of a task that does not touch the mutex.
LkMove(t, from, to) ==
    /\ lkPc[t] = from
    /\ lkPc' = [lkPc EXCEPT ![t] = to]
    /\ UNCHANGED <<lockOwner, lkState>>
    /\ UNCHANGED <<progVars, ringVars, smVars, capVars, accVars>>

\* Network task: { let mut s = client_state.lock().unwrap();
\* s.transition_to_connecting(); }
LkNetLockConnecting == LkAcquire("net", "lock_connecting", "in_connecting")
LkNetConnecting ==
    LkGroup("net", "in_connecting", "run", transition_to_connecting(lkState))

\* client.run(..).await completes with Ok or Err.
LkRunReturns(ok) ==
    /\ LkMove("net", "run", IF ok THEN "lock_end" ELSE "lock_err")
    /\ UNCHANGED lkLeft

\* if let Ok(mut s) = client_state.lock() { *s = Error(..) }, then the
\* finalize signal is sent and the task returns.
LkNetLockErr == LkAcquire("net", "lock_err", "in_err")
LkNetSetError == LkGroup("net", "in_err", "done", Error)

\* if let Ok(mut s) = client_state.lock() { if matches!(..) {
\* s.transition_to_finalizing() } }
LkNetLockEnd == LkAcquire("net", "lock_end", "in_end")
LkNetEnd == LkGroup("net", "in_end", "done", network_end_block(lkState))

\* Injection consumer: text_rx.recv().await yields a transcript; run sends
\* them while it is running.
LkRecvSome ==
    /\ lkPc["net"] = "run"
    /\ lkLeft.texts > 0
    /\ lkLeft' = [lkLeft EXCEPT !.texts = @ - 1]
    /\ LkMove("cons", "recv", "lock_begin")

\* text_rx.recv().await yields None once run has returned and dropped text_tx.
LkRecvNone ==
    /\ lkPc["net"] \in {"lock_end", "in_end", "lock_err", "in_err", "done"}
    /\ LkMove("cons", "recv", "lock_check")
    /\ UNCHANGED lkLeft

\* { let mut s = injection_state.lock().unwrap(); s.transition_to_recording();
\* s.begin_injection(); }
LkConsLockBegin == LkAcquire("cons", "lock_begin", "in_begin")
LkConsBegin == LkGroup("cons", "in_begin", "inject", recv_lock_block(lkState))

\* injector::inject_text(&text) runs to its end.
LkInject ==
    /\ LkMove("cons", "inject", "lock_finish")
    /\ UNCHANGED lkLeft

\* Variant of the end of the loop body in which the guard outlives the body.
LkConsFinishKeepsGuard ==
    /\ lkPc["cons"] = "in_finish"
    /\ lockOwner = "cons"
    /\ lkState' = finish_injection(lkState)
    /\ lkPc' = [lkPc EXCEPT !["cons"] = "recv"]
    /\ UNCHANGED <<lockOwner, lkLeft>>
    /\ UNCHANGED <<progVars, ringVars, smVars, capVars, accVars>>

\* let mut s = injection_state.lock().unwrap(); s.finish_injection(); and the
\* loop body ends, dropping s.
LkConsLockFinish == LkAcquire("cons", "lock_finish", "in_finish")
LkConsFinish == LkGroup("cons", "in_finish", "recv", finish_injection(lkState))

\* let should_finalize = { let s = injection_state.lock().unwrap();
\* matches!(*s, Finalizing { pending_injections: 0 }) }; then the signal is
\* sent or not and the task returns.
LkConsLockCheck == LkAcquire("cons", "lock_check", "in_check")
LkConsCheck == LkGroup("cons", "in_check", "done", lkState)

\* Orchestrator: the select yields a StartRecording command, a StopRecording
\* command or a finalize signal (of this session or left by an earlier one).
LkSelect(to) ==
    /\ lkLeft.cmds > 0
    /\ lkLeft' = [lkLeft EXCEPT !.cmds = @ - 1]
    /\ LkMove("orch", "select", to)

\* session.state.lock().unwrap().can_start(): the guard is a temporary of
\* the condition.
LkOrchLockStart == LkAcquire("orch", "lock_start", "in_start")
LkOrchCanStart == LkGroup("orch", "in_start", "select", lkState)

\* { let mut s = session.state.lock().unwrap(); if s.can_stop() {
\* s.transition_to_finalizing(); } .. }
LkOrchLockStop == LkAcquire("orch", "lock_stop", "in_stop")
LkOrchStop == LkGroup("orch", "in_stop", "select", stop_lock_block(lkState))

\* if let Ok(mut state) = session.state.lock() { state.transition_to_idle(); }
LkOrchLockIdle == LkAcquire("orch", "lock_idle", "in_idle")
LkOrchIdle == LkGroup("orch", "in_idle", "select", transition_to_idle(lkState))

NextLock ==
    \/ LkNetLockConnecting
    \/ LkNetConnecting
    \/ \E ok \in BOOLEAN : LkRunReturns(ok)
    \/ LkNetLockErr
    \/ LkNetSetError
    \/ LkNetLockEnd
    \/ LkNetEnd
    \/ LkRecvSome
    \/ LkRecvNone
    \/ LkConsLockBegin
    \/ LkConsBegin
    \/ LkInject
    \/ LkConsLockFinish
    \/ LkConsFinish
    \/ LkConsLockCheck
    \/ LkConsCheck
    \/ \E to \in {"lock_start", "lock_stop", "lock_idle"} : LkSelect(to)
    \/ LkOrchLockStart
    \/ LkOrchCanStart
    \/ LkOrchLockStop
    \/ LkOrchStop
    \/ LkOrchLockIdle
    \/ LkOrchIdle

InitLock ==
    /\ RingInit(0)
    /\ SmInit(0)
    /\ CapInit(0)
    /\ LockInit(TRUE)
    /\ AccInit(0)
    /\ cmdQ = <<>>
    /\ cmdsLeft = 0
    /\ active = 0
    /\ nextSid = 1
    /\ sessLeft = 0
    /\ rejects = 0
    /\ finalizeQ = <<>>
    /\ SessionsInit

SpecLock == InitLock /\ [][NextLock]_vars

\* Where a task is while it waits: the network task in run, the consumer in
\* the transcript receive or in the injection, the orchestrator in its select.
LkSuspended(t) ==
    \/ t = "net" /\ lkPc[t] = "run"
    \/ t = "cons" /\ lkPc[t] \in {"recv", "inject"}
    \/ t = "orch" /\ lkPc[t] = "select"

\* C23: a task that is awaiting run, awaiting a transcript, injecting or
\* waiting in the select does not hold the RecordingState mutex, and the
\* first step a task takes while it holds the mutex releases it (a hold
\* covers one read or one group of transition calls).
C23_NoLockAcrossSuspension ==
    /\ [](\A t \in LkTasks : LkSuspended(t) => lockOwner # t)
    /\ [][\A t \in LkTasks :
            (lockOwner = t /\ lkPc'[t] # lkPc[t]) => lockOwner' = "none"]_vars

\* All three tasks are at a suspension point with the mutex free, after the
\* consumer has injected every transcript and the orchestrator has handled
\* a StopRecording.
C23_Witness ==
    /\ lkPc["net"] = "run"
    /\ lkPc["cons"] = "recv"
    /\ lkPc["orch"] = "select"
    /\ lkLeft.texts = 0
    /\ is_finalizing(lkState)
    /\ lockOwner = "none"

\* -------------------------------- process_audio_f32 on its own (audio.rs)
\* The samples of a hardware delivery of n samples, numbered in arrival order.
Arrived(n) == [i \in 1..n |-> accIn + i]

\* The CHUNK_SIZE blocks the loop finds in a buffer.
NBlocks(buf) == Len(buf) \div ChunkSize

\* Resampler output for one block: a new vector computed from that block.
Resampled(block) == [kind |-> "resampled", from |-> block]

\* The clamp-and-scale conversion of the whole buffer to i16.
Scaled(buf) == [kind |-> "scaled", from |-> buf]

RECURSIVE ResampleLoopStopsOnErr(_, _, _)
\* Variant of the loop that leaves it when a conversion fails.
ResampleLoopStopsOnErr(buf, oks, i) ==
    IF Len(buf) < ChunkSize
    THEN [buf |-> buf, out |-> <<>>, failed |-> <<>>]
    ELSE IF oks[i]
         THEN LET r == ResampleLoopStopsOnErr(
                           SubSeq(buf, ChunkSize + 1, Len(buf)), oks, i + 1)
              IN [r EXCEPT !.out = <<Resampled(SubSeq(buf, 1, ChunkSize))>> \o @]
         ELSE [buf |-> SubSeq(buf, ChunkSize + 1, Len(buf)), out |-> <<>>,
               failed |-> <<SubSeq(buf, 1, ChunkSize)>>]

RECURSIVE ResampleLoop(_, _, _)
\* while buffer.len() >= CHUNK_SIZE: drain(0..CHUNK_SIZE), and when
\* resampler.process is Ok with a first channel, its output goes to
\* enqueue_and_flush; oks[i] is the outcome for the i-th block of the call.
ResampleLoop(buf, oks, i) ==
    IF Len(buf) < ChunkSize
    THEN [buf |-> buf, out |-> <<>>, failed |-> <<>>]
    ELSE LET r == ResampleLoop(SubSeq(buf, ChunkSize + 1, Len(buf)), oks, i + 1)
             block == SubSeq(buf, 1, ChunkSize)
         IN IF oks[i]
            THEN [r EXCEPT !.out = <<Resampled(block)>> \o @]
            ELSE [r EXCEPT !.failed = <<block>> \o @]

\* process_audio_f32 with an input of n samples: extend the buffer, then the
\* resampler loop, or drain(..) and one enqueue_and_flush without a resampler.
AccDeliver(n, oks) ==
    /\ accLeft > 0
    /\ accLeft' = accLeft - 1
    /\ accIn' = accIn + n
    /\ IF hasResampler
       THEN LET r == ResampleLoop(accBuf \o Arrived(n), oks, 1)
            IN /\ accBuf' = r.buf
               /\ accOut' = accOut \o r.out
               /\ accFailed' = accFailed \o r.failed
       ELSE /\ accBuf' = <<>>
            /\ accOut' = Append(accOut, Scaled(accBuf \o Arrived(n)))
            /\ accFailed' = accFailed
    /\ UNCHANGED hasResampler
    /\ UNCHANGED <<progVars, ringVars, smVars, capVars, lockVars>>

NextAccum ==
    \E n \in 0..(2 * ChunkSize + 1) :
        \E oks \in [1..NBlocks(accBuf \o Arrived(n)) -> BOOLEAN] :
            AccDeliver(n, oks)

InitAccum ==
    /\ RingInit(0)
    /\ SmInit(0)
    /\ CapInit(0)
    /\ LockInit(FALSE)
    /\ AccInit(MaxDeliveries)
    /\ cmdQ = <<>>
    /\ cmdsLeft = 0
    /\ active = 0
    /\ nextSid = 1
    /\ sessLeft = 0
    /\ rejects = 0
    /\ finalizeQ = <<>>
    /\ SessionsInit

SpecAccum == InitAccum /\ [][NextAccum]_vars

\* The k-th CHUNK_SIZE block of everything the hardware has delivered.
BlockNo(k) == [i \in 1..ChunkSize |-> (k - 1) * ChunkSize + i]

\* The accumulation buffer of a step's delivery once its input is appended.
Extended == accBuf \o Arrived(accIn' - accIn)

\* The blocks a sequence of outputs was computed from.
Sources(outs) == [i \in 1..Len(outs) |-> outs[i].from]

\* How often a block occurs in a sequence of blocks.
Occurrences(blocks, b) == Cardinality({i \in 1..Len(blocks) : blocks[i] = b})

\* C24: with a converter, after every delivery the accumulation buffer holds
\* fewer than CHUNK_SIZE samples, namely the samples after the last complete
\* block; every complete block delivered so far has been taken exactly once,
\* either converted (in order) or dropped because its conversion failed; and
\* the blocks of one delivery are all taken in that delivery, a failed one
\* not stopping the later ones. Without a converter the buffer is empty after
\* every delivery and each delivery's whole buffer was passed on.
C24_AccumulationDrained ==
    /\ [](hasResampler =>
            /\ Len(accBuf) < ChunkSize
            /\ accBuf = [i \in 1..(accIn % ChunkSize) |->
                            (accIn \div ChunkSize) * ChunkSize + i]
            /\ Len(accOut) + Len(accFailed) = accIn \div ChunkSize
            /\ \A k \in 1..(accIn \div ChunkSize) :
                  Occurrences(Sources(accOut), BlockNo(k))
                      + Occurrences(accFailed, BlockNo(k)) = 1
            /\ \A i, j \in 1..Len(accOut) :
                  i < j => accOut[i].from[1] < accOut[j].from[1])
    /\ [](~hasResampler =>
            /\ accBuf = <<>>
            /\ Len(accOut) = MaxDeliveries - accLeft
            /\ \A i \in 1..Len(accOut) : accOut[i].kind = "scaled")
    /\ [][~hasResampler => accOut' = Append(accOut, Scaled(Extended))]_vars
    /\ [][hasResampler =>
            Len(accOut') + Len(accFailed')
                = Len(accOut) + Len(accFailed) + NBlocks(Extended)]_vars

\* With a converter, one delivery brought several blocks: one failed to
\* convert, a later one was converted, and a partial block stays buffered.
C24_Witness ==
    /\ hasResampler
    /\ accLeft = MaxDeliveries - 1
    /\ Len(accFailed) = 1
    /\ Len(accOut) = 1
    /\ accOut[1].from[1] > accFailed[1][1]
    /\ accBuf # <<>>

====
